---- MODULE Spec2Model ----
(***************************************************************************)
(* Model of ggshield/scan/scannable.py: the concurrent scan dispatcher     *)
(* (Scanner), the error classifier (handle_scan_chunk_error) and the raw   *)
(* patch parser (_parse_patch_header_line, _parse_patch_header,            *)
(* _parse_patch), the lazily read properties of Commit and                 *)
(* ScanCollection.get_all_results.                                         *)
(*                                                                         *)
(* Text is modelled as a sequence of symbols.  A symbol is one character,  *)
(* except that the literals the parser searches for are single symbols:    *)
(* "NUL" is \0, "NL" is \n, "diff " and "commit " are those words followed *)
(* by a space, "@@" is the hunk marker.  ByteLen gives the UTF-8 length.   *)
(***************************************************************************)
EXTENDS Integers, Sequences, FiniteSets, TLC

VARIABLES
    files,            \* Scanner.scan: the input files, in order
    pc,               \* position of the calling thread inside Scanner.scan
    idx,              \* _start_scans: index of the next file of the for loop
    chunk,            \* _start_scans: the chunk being filled
    skipped_chunk,    \* _start_scans: files set aside (no document)
    futures,          \* chunks_for_futures, in submission order, with each future's state
    progress,         \* the advance values passed to progress_callback, in call order
    cacheOps,         \* the calls made on self.cache, in call order
    results,          \* _collect_results: results
    errors,           \* _collect_results: errors
    stderr,           \* diagnostics written by handle_scan_chunk_error
    completionOrder,  \* the futures in the order their remote call finished
    snapshot,         \* as_completed: the futures already finished when it was called
    collectOrder,     \* the futures in the order the collector processed them
    pendingAtExit,    \* futures not finished when _collect_results returned or raised
    outcome,          \* what Scanner.scan gave its caller: none, Results or an exception
    header_in,        \* the fields of the raw header line handed to the parser
    header_line,      \* _parse_patch_header_line: line
    header_out,       \* what _parse_patch_header_line returned or raised
    patch_in,         \* the commits and files the patch text was written from
    patch,            \* _parse_patch: patch
    patch_out,        \* the CommitFiles _parse_patch yielded, and what it raised
    sha,              \* Commit.sha
    _patch,           \* Commit._patch
    _files,           \* Commit._files
    _info,            \* Commit._info
    gitCalls,         \* the calls of shell([GIT_PATH, ...]) and what each gave, in call order
    parseCalls,       \* how many times _parse_patch has been run for the commit
    last_read,        \* the last read of a property of the commit: what it returned or raised
    reads,            \* how many reads the commit has had
    collection,       \* the ScanCollection get_all_results is called on
    all_results       \* what get_all_results yielded, and what it raised

scanVars == <<files, pc, idx, chunk, skipped_chunk, futures, progress, cacheOps,
              results, errors, stderr, completionOrder, snapshot, collectOrder,
              pendingAtExit, outcome>>

headerVars == <<header_in, header_line, header_out>>

patchVars == <<patch_in, patch, patch_out>>

commitVars == <<sha, _patch, _files, _info, gitCalls, parseCalls, last_read, reads>>

collectionVars == <<collection, all_results>>

vars == <<scanVars, headerVars, patchVars, commitVars, collectionVars>>

----
\* Bounds of the model: the number of input files of a scan, pygitguardian's
\* limit on the documents of one request (scaled down), and the max_workers
\* of the executor.
MaxFiles == 4
MULTI_DOCUMENT_LIMIT == 2
scan_threads == 2

\* Document contents an input file can have; "" is what File._decode_bytes
\* returns for bytes it cannot decode.
Documents == {"", "clean", "ignored", "secret"}

----
\* Generic helpers.
RECURSIVE Concat(_)
Concat(ss) == IF ss = <<>> THEN <<>> ELSE Head(ss) \o Concat(Tail(ss))

Range(s) == {s[i] : i \in DOMAIN s}

Min(a, b) == IF a < b THEN a ELSE b

----
\* The collaborators of the dispatcher.

\* Status codes are written as strings; "None" is Python's None.

\* File.__init__: a plain file has filemode FILE.  The filename is the
\* position of the file in the input.
File(document, filename) ==
    [filename |-> filename, filemode |-> "FILE", document |-> document]

\* The policy breaks the remote service finds in a document: "clean" has none,
\* "ignored" has only breaks that the two filters remove, "secret" has one
\* break that is filtered out and one that stays.
PolicyBreaksOf(document) ==
    CASE document = "ignored" -> << [detector |-> "d1",    match |-> "m_ign"],
                                    [detector |-> "d_ign", match |-> "m2"] >>
      [] document = "secret"  -> << [detector |-> "d1",    match |-> "m_ign"],
                                    [detector |-> "d1",    match |-> "m1"] >>
      [] OTHER                -> << >>

\* Scanner.matches_ignore and Scanner.ignored_detectors of the modelled scanner.
matches_ignore == {"m_ign"}
ignored_detectors == {"d_ign"}

\* ggshield.core.filter.remove_ignored_from_result
remove_ignored_from_result(scanned, ignored) ==
    SelectSeq(scanned, LAMBDA pb : pb.match \notin ignored)

\* ggshield.core.filter.remove_results_from_ignore_detectors
remove_results_from_ignore_detectors(scanned, detectors) ==
    SelectSeq(scanned, LAMBDA pb : pb.detector \notin detectors)

\* ScanResult.has_policy_breaks
has_policy_breaks(scanned) == Len(scanned) > 0

\* pygitguardian Detail(detail, status_code=None): a non-success outcome.
\* `literal` is what ast.literal_eval makes of the detail text: "list" with
\* its items, or "unparsable" when literal_eval raises.
Detail(detail, status_code) ==
    [success |-> FALSE, status_code |-> status_code, detail |-> detail,
     scan_results |-> << >>]

PlainText(text) == [text |-> text, literal |-> "unparsable", items |-> << >>]
ListText(items) == [text |-> "list", literal |-> "list", items |-> items]

\* pygitguardian MultiScanResult: a success outcome, one scan result per document.
MultiScanResult(documents) ==
    [success |-> TRUE, status_code |-> "200", detail |-> PlainText(""),
     scan_results |-> [i \in DOMAIN documents |-> PolicyBreaksOf(documents[i].document)]]

\* The per-file detail lists a non-success outcome can carry for n documents:
\* the empty list, n entries of which the first is empty, and n + 1 entries.
DetailLists(n) ==
    { << >>,
      [i \in 1..n |-> IF i = 1 THEN "" ELSE "too large"],
      [i \in 1..(n + 1) |-> "too large"] }

\* What GGClient.multi_content_scan can do with a list of documents: raise
\* (raises is the text of the exception), or return an outcome.
NoException == "None"
multi_content_scan(documents) ==
    { [raises |-> "connection reset", value |-> Detail(PlainText(""), "None")],
      [raises |-> NoException, value |-> MultiScanResult(documents)],
      [raises |-> NoException, value |-> Detail(PlainText("Invalid API key."), "401")],
      [raises |-> NoException, value |-> Detail(PlainText("timeout"), "None")],
      [raises |-> NoException, value |-> Detail(PlainText("Bad request"), "400")] }
    \cup
    { [raises |-> NoException, value |-> Detail(ListText(l), "400")] :
          l \in DetailLists(Len(documents)) }

----
\* Scanner._scan_chunk: the documents of a chunk, submitted to the executor.
\* A new future is pending until a worker thread takes it.
NoCall == [raises |-> NoException, value |-> Detail(PlainText(""), "None")]

_scan_chunk(c) ==
    [chunk |-> c,
     documents |-> [i \in DOMAIN c |-> [document |-> c[i].document, filename |-> c[i].filename]],
     state |-> "pending",
     call |-> NoCall]

\* `if file.document:`
HasDocument(file) == file.document # ""

\* Mutant: the chunk is closed one file too late.
ChunkIsFull_TooLate(c) == Len(c) > MULTI_DOCUMENT_LIMIT

\* `if len(chunk) == MULTI_DOCUMENT_LIMIT:`
ChunkIsFull(c) == Len(c) = MULTI_DOCUMENT_LIMIT

\* One iteration of the for loop of Scanner._start_scans.
StartScansStep ==
    /\ UNCHANGED <<headerVars, patchVars, commitVars, collectionVars>>
    /\ pc = "start_scans"
    /\ idx <= Len(files)
    /\ LET file == files[idx]
           c == Append(chunk, file)
       IN IF HasDocument(file)
          THEN /\ IF ChunkIsFull(c)
                  THEN /\ futures' = Append(futures, _scan_chunk(c))
                       /\ progress' = Append(progress, Len(c))
                       /\ chunk' = << >>
                  ELSE /\ chunk' = c
                       /\ UNCHANGED <<futures, progress>>
               /\ UNCHANGED skipped_chunk
          ELSE /\ skipped_chunk' = Append(skipped_chunk, file)
               /\ UNCHANGED <<chunk, futures, progress>>
    /\ idx' = idx + 1
    /\ UNCHANGED <<files, pc, cacheOps, results, errors, stderr, completionOrder,
                   snapshot, collectOrder, pendingAtExit, outcome>>

\* Mutant: the skipped count is reported only when a file was skipped.
StartScansEnd_ZeroUnreported ==
    /\ UNCHANGED <<headerVars, patchVars, commitVars, collectionVars>>
    /\ pc = "start_scans"
    /\ idx > Len(files)
    /\ IF chunk # << >>
       THEN /\ futures' = Append(futures, _scan_chunk(chunk))
            /\ progress' = Append(progress, Len(chunk))
                            \o (IF skipped_chunk = << >> THEN << >>
                                ELSE << Len(skipped_chunk) >>)
       ELSE /\ futures' = futures
            /\ progress' = progress \o (IF skipped_chunk = << >> THEN << >>
                                         ELSE << Len(skipped_chunk) >>)
    /\ pc' = "purge"
    /\ UNCHANGED <<files, idx, chunk, skipped_chunk, cacheOps, results, errors, stderr,
                   completionOrder, snapshot, collectOrder, pendingAtExit, outcome>>

\* Mutant: the size of the last, partial chunk is not reported when it is
\* submitted.
StartScansEnd_TailUnreported ==
    /\ UNCHANGED <<headerVars, patchVars, commitVars, collectionVars>>
    /\ pc = "start_scans"
    /\ idx > Len(files)
    /\ IF chunk # << >>
       THEN futures' = Append(futures, _scan_chunk(chunk))
       ELSE futures' = futures
    /\ progress' = Append(progress, Len(skipped_chunk))
    /\ pc' = "purge"
    /\ UNCHANGED <<files, idx, chunk, skipped_chunk, cacheOps, results, errors, stderr,
                   completionOrder, snapshot, collectOrder, pendingAtExit, outcome>>

\* The end of Scanner._start_scans: the last, partial chunk and the skipped count.
StartScansEnd ==
    /\ UNCHANGED <<headerVars, patchVars, commitVars, collectionVars>>
    /\ pc = "start_scans"
    /\ idx > Len(files)
    /\ IF chunk # << >>
       THEN /\ futures' = Append(futures, _scan_chunk(chunk))
            /\ progress' = progress \o << Len(chunk), Len(skipped_chunk) >>
       ELSE /\ futures' = futures
            /\ progress' = Append(progress, Len(skipped_chunk))
    /\ pc' = "purge"
    /\ UNCHANGED <<files, idx, chunk, skipped_chunk, cacheOps, results, errors, stderr,
                   completionOrder, snapshot, collectOrder, pendingAtExit, outcome>>

----
\* The worker threads of the ThreadPoolExecutor.

Running == {b \in DOMAIN futures : futures[b].state = "running"}
Pending == {b \in DOMAIN futures : futures[b].state = "pending"}
Finished == {b \in DOMAIN futures : futures[b].state = "finished"}

\* A worker thread takes the oldest pending work item; there are at most
\* scan_threads worker threads.
WorkerStart(b) ==
    /\ UNCHANGED <<headerVars, patchVars, commitVars, collectionVars>>
    /\ b \in Pending
    /\ \A a \in Pending : b <= a
    /\ Cardinality(Running) < scan_threads
    /\ futures' = [futures EXCEPT ![b].state = "running"]
    /\ UNCHANGED <<files, pc, idx, chunk, skipped_chunk, progress, cacheOps, results,
                   errors, stderr, completionOrder, snapshot, collectOrder,
                   pendingAtExit, outcome>>

\* Mutant: the worker thread records what its call found in the cache.
WorkerFinish_TouchesCache(b) ==
    /\ UNCHANGED <<headerVars, patchVars, commitVars, collectionVars>>
    /\ b \in Running
    /\ \E call \in multi_content_scan(futures[b].documents) :
          futures' = [futures EXCEPT ![b].state = "finished", ![b].call = call]
    /\ completionOrder' = Append(completionOrder, b)
    /\ cacheOps' = Append(cacheOps, [op |-> "add_found_policy_break",
                                      policy_break |-> "secret",
                                      filename |-> futures[b].chunk[1].filename])
    /\ UNCHANGED <<files, pc, idx, chunk, skipped_chunk, progress, results,
                   errors, stderr, snapshot, collectOrder, pendingAtExit, outcome>>

\* The remote call of a running work item ends and the future is set.
WorkerFinish(b) ==
    /\ UNCHANGED <<headerVars, patchVars, commitVars, collectionVars>>
    /\ b \in Running
    /\ \E call \in multi_content_scan(futures[b].documents) :
          futures' = [futures EXCEPT ![b].state = "finished", ![b].call = call]
    /\ completionOrder' = Append(completionOrder, b)
    /\ UNCHANGED <<files, pc, idx, chunk, skipped_chunk, progress, cacheOps, results,
                   errors, stderr, snapshot, collectOrder, pendingAtExit, outcome>>

----
\* handle_scan_chunk_error

\* The loop over the per-file details: one line per non-empty entry, naming
\* chunk[i]; indexing past the end of the chunk raises IndexError.  i counts
\* from 1.
RECURSIVE EchoDetails(_, _, _)
EchoDetails(details, c, i) ==
    IF i > Len(details) THEN [raised |-> NoException, out |-> << >>]
    ELSE IF details[i] = "" THEN EchoDetails(details, c, i + 1)
    ELSE IF i > Len(c) THEN [raised |-> "IndexError", out |-> << >>]
    ELSE LET rest == EchoDetails(details, c, i + 1) IN
         [raised |-> rest.raised,
          out |-> << [line |-> "file", files |-> << c[i].filename >>, text |-> details[i]] >>
                  \o rest.out]

\* Mutant: an authentication failure is not told apart.
IsUnauthorized_Never(detail) == FALSE

\* `if detail.status_code == 401:`
IsUnauthorized(detail) == detail.status_code = "401"

\* Mutant: an outcome without status code is not told apart.
HasNoStatus_Never(detail) == FALSE

\* `if detail.status_code is None:`
HasNoStatus(detail) == detail.status_code = "None"

\* What handle_scan_chunk_error(detail, chunk) raises (NoException when it
\* returns) and what it writes.
handle_scan_chunk_error(detail, c) ==
    IF IsUnauthorized(detail)
    THEN [raised |-> "UsageError", out |-> << >>]
    ELSE IF HasNoStatus(detail)
    THEN [raised |-> "ClickException", out |-> << >>]
    ELSE LET head == << [line |-> "incomplete", files |-> << >>, text |-> ""] >> IN
         IF detail.detail.literal = "list" /\ detail.detail.items # << >>
         THEN LET echo == EchoDetails(detail.detail.items, c, 1) IN
              [raised |-> echo.raised,
               out |-> head
                       \o << [line |-> "paths-ignore", files |-> << >>, text |-> ""] >>
                       \o echo.out]
         ELSE [raised |-> NoException,
               out |-> head
                       \o << [line |-> "chunk", text |-> "",
                              files |-> [i \in DOMAIN c |-> c[i].filename]],
                             [line |-> "detail", files |-> << >>, text |-> detail.detail.text] >>]

----
\* Scanner._collect_results

\* Mutant: the two filters are not applied before has_policy_breaks is read.
RECURSIVE ChunkResults_Unfiltered(_, _, _)
ChunkResults_Unfiltered(c, scan_results, i) ==
    IF i > Min(Len(c), Len(scan_results)) THEN [results |-> << >>, cache |-> << >>]
    ELSE LET file == c[i]
             scanned == scan_results[i]
             rest == ChunkResults_Unfiltered(c, scan_results, i + 1)
         IN IF has_policy_breaks(scanned)
            THEN [results |-> << [content |-> file.document, scan |-> scanned,
                                  filemode |-> file.filemode, filename |-> file.filename] >>
                              \o rest.results,
                  cache |-> rest.cache]
            ELSE rest

\* The loop over zip(chunk, scan.scan_results): the Result of each file that
\* keeps a policy break after the two filters, and the calls made on the cache.
RECURSIVE ChunkResults(_, _, _)
ChunkResults(c, scan_results, i) ==
    IF i > Min(Len(c), Len(scan_results)) THEN [results |-> << >>, cache |-> << >>]
    ELSE LET file == c[i]
             scanned == remove_results_from_ignore_detectors(
                            remove_ignored_from_result(scan_results[i], matches_ignore),
                            ignored_detectors)
             rest == ChunkResults(c, scan_results, i + 1)
         IN IF has_policy_breaks(scanned)
            THEN [results |-> << [content |-> file.document, scan |-> scanned,
                                  filemode |-> file.filemode, filename |-> file.filename] >>
                              \o rest.results,
                  cache |-> [k \in DOMAIN scanned |->
                                [op |-> "add_found_policy_break", policy_break |-> scanned[k],
                                 filename |-> file.filename]]
                            \o rest.cache]
            ELSE rest

\* The Error(files, description) recorded for a chunk.
Error(c, description) ==
    [files |-> [i \in DOMAIN c |-> << c[i].filename, c[i].filemode >>],
     description |-> description]

\* Mutant: the finished futures are taken in submission order.
NextCompleted_SubmissionOrder ==
    LET done == Finished \ Range(collectOrder)
    IN IF done = {} THEN {} ELSE {CHOOSE b \in done : \A a \in done : b <= a}

\* The futures as_completed can yield next: first those that were finished
\* when it was called, in any order, then the others as they finish.
NextCompleted ==
    LET collected == Range(collectOrder)
        early == snapshot \ collected
        late == {i \in DOMAIN completionOrder : completionOrder[i] \notin collected}
    IN IF early # {} THEN early
       ELSE IF late = {} THEN {}
       ELSE {completionOrder[CHOOSE i \in late : \A j \in late : i <= j]}

NoOutcome == [kind |-> "none", results |-> << >>, errors |-> << >>, exception |-> NoException]

\* Mutant: collection begins without purging the cache.
Purge_Skipped ==
    /\ UNCHANGED <<headerVars, patchVars, commitVars, collectionVars>>
    /\ pc = "purge"
    /\ snapshot' = Finished
    /\ pc' = "collect"
    /\ UNCHANGED <<files, idx, chunk, skipped_chunk, futures, progress, cacheOps, results,
                   errors, stderr, completionOrder, collectOrder, pendingAtExit, outcome>>

\* self.cache.purge(), and the call of as_completed.
Purge ==
    /\ UNCHANGED <<headerVars, patchVars, commitVars, collectionVars>>
    /\ pc = "purge"
    /\ cacheOps' = Append(cacheOps, [op |-> "purge"])
    /\ snapshot' = Finished
    /\ pc' = "collect"
    /\ UNCHANGED <<files, idx, chunk, skipped_chunk, futures, progress, results, errors,
                   stderr, completionOrder, collectOrder, pendingAtExit, outcome>>

\* One iteration of the loop over as_completed(chunks_for_futures).
Collect(b) ==
    /\ UNCHANGED <<headerVars, patchVars, commitVars, collectionVars>>
    /\ pc = "collect"
    /\ b \in NextCompleted
    /\ LET c == futures[b].chunk
           exception == futures[b].call.raises
           scan == IF exception = NoException
                   THEN futures[b].call.value
                   ELSE Detail(PlainText(exception), "None")
           errors1 == IF exception = NoException
                      THEN errors
                      ELSE Append(errors, Error(c, scan.detail.text))
       IN /\ collectOrder' = Append(collectOrder, b)
          /\ errors' = errors1
          /\ IF ~ scan.success
             THEN LET handled == handle_scan_chunk_error(scan, c) IN
                  /\ stderr' = stderr \o handled.out
                  /\ IF handled.raised = NoException
                     THEN UNCHANGED <<pc, outcome, pendingAtExit>>
                     ELSE /\ pc' = "exit"
                          /\ outcome' = [NoOutcome EXCEPT !.kind = "raise",
                                                          !.exception = handled.raised]
                          /\ pendingAtExit' = DOMAIN futures \ Finished
                  /\ UNCHANGED <<results, cacheOps>>
             ELSE LET got == ChunkResults(c, scan.scan_results, 1) IN
                  /\ results' = results \o got.results
                  /\ cacheOps' = cacheOps \o got.cache
                  /\ UNCHANGED <<stderr, pc, outcome, pendingAtExit>>
    /\ UNCHANGED <<files, idx, chunk, skipped_chunk, futures, progress,
                   completionOrder, snapshot>>

\* Mutant: the cache is saved and scan returns without waiting for the
\* as_completed loop to end.
SaveAndReturn_Early ==
    /\ UNCHANGED <<headerVars, patchVars, commitVars, collectionVars>>
    /\ pc = "collect"
    /\ cacheOps' = Append(cacheOps, [op |-> "save"])
    /\ outcome' = [NoOutcome EXCEPT !.kind = "Results", !.results = results, !.errors = errors]
    /\ pendingAtExit' = DOMAIN futures \ Finished
    /\ pc' = "exit"
    /\ UNCHANGED <<files, idx, chunk, skipped_chunk, futures, progress, results, errors,
                   stderr, completionOrder, snapshot, collectOrder>>

\* The end of the loop: self.cache.save() and `return Results(...)`.
SaveAndReturn ==
    /\ UNCHANGED <<headerVars, patchVars, commitVars, collectionVars>>
    /\ pc = "collect"
    /\ Range(collectOrder) = DOMAIN futures
    /\ cacheOps' = Append(cacheOps, [op |-> "save"])
    /\ outcome' = [NoOutcome EXCEPT !.kind = "Results", !.results = results, !.errors = errors]
    /\ pendingAtExit' = DOMAIN futures \ Finished
    /\ pc' = "exit"
    /\ UNCHANGED <<files, idx, chunk, skipped_chunk, futures, progress, results, errors,
                   stderr, completionOrder, snapshot, collectOrder>>

----
\* Scanner.scan

\* Mutant: the executor is shut down without waiting.
ExecutorDrained_NoWait == TRUE

\* ThreadPoolExecutor.__exit__ is shutdown(wait=True): it returns when the
\* worker threads have run every submitted work item.
ExecutorDrained == Pending = {} /\ Running = {}

\* The exit of the `with` block; scan then returns or raises.
ExecutorExit ==
    /\ UNCHANGED <<headerVars, patchVars, commitVars, collectionVars>>
    /\ pc = "exit"
    /\ ExecutorDrained
    /\ pc' = "done"
    /\ UNCHANGED <<files, idx, chunk, skipped_chunk, futures, progress, cacheOps, results,
                   errors, stderr, completionOrder, snapshot, collectOrder,
                   pendingAtExit, outcome>>

\* The inputs of a scan: up to MaxFiles files of any content.
Inputs ==
    UNION { [1..n -> Documents] : n \in 0..MaxFiles }

\* The scanner with the given input files, before (or outside of) a scan.
ScanInit(docs, at) ==
    /\ files = [i \in DOMAIN docs |-> File(docs[i], i)]
    /\ pc = at
    /\ idx = 1
    /\ chunk = << >>
    /\ skipped_chunk = << >>
    /\ futures = << >>
    /\ progress = << >>
    /\ cacheOps = << >>
    /\ results = << >>
    /\ errors = << >>
    /\ stderr = << >>
    /\ completionOrder = << >>
    /\ snapshot = {}
    /\ collectOrder = << >>
    /\ pendingAtExit = {}
    /\ outcome = NoOutcome

ScanNext ==
    \/ StartScansStep
    \/ StartScansEnd
    \/ \E b \in DOMAIN futures : WorkerStart(b)
    \/ \E b \in DOMAIN futures : WorkerFinish(b)
    \/ Purge
    \/ \E b \in DOMAIN futures : Collect(b)
    \/ SaveAndReturn
    \/ ExecutorExit

----
\* Text helpers: a text is a sequence of symbols.

Digits == {"0", "1", "2", "3", "4", "5", "6", "7", "8", "9"}

\* str.rstrip(chars)
RECURSIVE RStrip(_, _)
RStrip(s, chars) ==
    IF s # << >> /\ s[Len(s)] \in chars THEN RStrip(SubSeq(s, 1, Len(s) - 1), chars) ELSE s

\* str.split(sep) for a one-symbol separator: always at least one field.
RECURSIVE SplitOn(_, _)
SplitOn(s, sep) ==
    IF \E i \in DOMAIN s : s[i] = sep
    THEN LET i == CHOOSE k \in DOMAIN s : s[k] = sep /\ \A j \in 1..(k - 1) : s[j] # sep
         IN << SubSeq(s, 1, i - 1) >> \o SplitOn(SubSeq(s, i + 1, Len(s)), sep)
    ELSE << s >>

\* str.rsplit(sep, 1)[-1]: what follows the last separator.
AfterLast(s, sep) ==
    IF \E i \in DOMAIN s : s[i] = sep
    THEN LET i == CHOOSE k \in DOMAIN s : s[k] = sep /\ \A j \in (k + 1)..Len(s) : s[j] # sep
         IN SubSeq(s, i + 1, Len(s))
    ELSE s

\* `x in status`
In(x, status) == \E i \in DOMAIN status : status[i] = x

----
\* _parse_patch_header_line

\* Mutant: a type change is classified as a modification.
StatusFilemode_TypeChangeIsModify(status) ==
    IF In("M", status) \/ In("T", status) THEN "MODIFY"
    ELSE IF In("C", status) THEN "NEW"
    ELSE IF In("A", status) THEN "NEW"
    ELSE IF In("R", status) THEN "RENAME"
    ELSE IF In("D", status) THEN "DELETE"
    ELSE "ValueError"

\* Mutant: the first status letter alone decides.
StatusFilemode_FirstLetter(status) ==
    IF status = << >> THEN "ValueError"
    ELSE CASE status[1] = "M" -> "MODIFY"
           [] status[1] \in {"C", "A", "T"} -> "NEW"
           [] status[1] = "R" -> "RENAME"
           [] status[1] = "D" -> "DELETE"
           [] OTHER -> "ValueError"

\* The chain of `if "M" in status: ... elif ...`: the filemode, or ValueError
\* when no known letter is in the status.
StatusFilemode(status) ==
    IF In("M", status) THEN "MODIFY"
    ELSE IF In("C", status) THEN "NEW"
    ELSE IF In("A", status) THEN "NEW"
    ELSE IF In("T", status) THEN "NEW"
    ELSE IF In("R", status) THEN "RENAME"
    ELSE IF In("D", status) THEN "DELETE"
    ELSE "ValueError"

Raise(exception) == [raised |-> exception, filename |-> << >>, filemode |-> ""]

\* _parse_patch_header_line(line): (filename, filemode), or the exception raised.
\* Unpacking `prefix, name, *rest` needs two fields at least.
_parse_patch_header_line(line) ==
    LET fields == SplitOn(RStrip(line, {"NUL"}), "NUL") IN
    IF Len(fields) < 2 THEN Raise("ValueError")
    ELSE LET prefix == fields[1]
             name == IF Len(fields) > 2 THEN fields[3] ELSE fields[2]
             status == RStrip(AfterLast(prefix, " "), Digits)
             filemode == StatusFilemode(status)
         IN IF filemode = "ValueError" THEN Raise("ValueError")
            ELSE [raised |-> NoException, filename |-> name, filemode |-> filemode]

\* A raw header line as git writes it with --raw -z: one colon, mode and sha
\* per parent, the status letters and score, then the NUL-separated names.
RECURSIVE Repeat(_, _)
Repeat(s, n) == IF n = 0 THEN << >> ELSE s \o Repeat(s, n - 1)

RawHeaderLine(h) ==
    Repeat(<< ":" >>, Len(h.status))
    \o Repeat(<< "1", "0", "0", "6", "4", "4", " " >>, Len(h.status) + 1)
    \o Repeat(<< "a", "b", "1", " " >>, Len(h.status) + 1)
    \o h.status \o h.score
    \o << "NUL" >> \o h.name
    \o (IF h.new_name = << >> THEN << >> ELSE << "NUL" >> \o h.new_name)
    \o (IF h.terminated THEN << "NUL" >> ELSE << >>)

\* The status letters git can write, and one it does not ("X").
StatusLetters == {"M", "C", "A", "T", "R", "D", "X"}

\* At most MaxParents status letters, one per parent of the commit.
MaxParents == 2

HeaderInputs ==
    [status : UNION { [1..n -> StatusLetters] : n \in 1..MaxParents },
     score : { << >>, << "0", "7", "5" >> },
     name : { << "a", ".", "p", "y" >> },
     new_name : { << >>, << "b", "1", ".", "p", "y" >> },
     terminated : BOOLEAN]

NoParse == [raised |-> "not called", filename |-> << >>, filemode |-> ""]

HeaderIdle ==
    /\ header_in = [status |-> << >>, score |-> << >>, name |-> << >>,
                    new_name |-> << >>, terminated |-> FALSE]
    /\ header_line = << >>
    /\ header_out = NoParse

\* A call of _parse_patch_header_line on the given line.
ParseHeaderLine ==
    /\ header_out = NoParse
    /\ header_line # << >>
    /\ header_out' = _parse_patch_header_line(header_line)
    /\ UNCHANGED <<header_in, header_line, scanVars, patchVars, commitVars, collectionVars>>

----
\* _parse_patch_header

\* The pieces of re.split("[\n\0]:", header) from position `from` on: the
\* text is cut at each \n or \0 that a colon follows.
RECURSIVE HeaderLineSplit(_, _)
HeaderLineSplit(s, from) ==
    LET cuts == {i \in from..(Len(s) - 1) : s[i] \in {"NL", "NUL"} /\ s[i + 1] = ":"} IN
    IF cuts = {} THEN << SubSeq(s, from, Len(s)) >>
    ELSE LET i == CHOOSE c \in cuts : \A d \in cuts : c <= d
         IN << SubSeq(s, from, i - 1) >> \o HeaderLineSplit(s, i + 2)

\* Mutant: no blank line is put before a header that starts with a file line.
WithCommitInfo_AsIs(header) == header

\* `if header[0] == ":": header = "\n" + header`
WithCommitInfo(header) ==
    IF header[1] = ":" THEN << "NL" >> \o header ELSE header

\* The raw header lines of a header, each as handed to
\* _parse_patch_header_line: the first piece of the split is skipped.
_parse_patch_header(header) ==
    LET pieces == HeaderLineSplit(WithCommitInfo(header), 1) IN
    [i \in 1..(Len(pieces) - 1) |-> << ":" >> \o pieces[i + 1]]

----
\* _parse_patch

\* pygitguardian's limit on the bytes of one document, scaled down.
DOCUMENT_SIZE_THRESHOLD_BYTES == 30

\* len(text.encode("utf-8"))
ByteLen(sym) ==
    CASE sym = "diff " -> 5
      [] sym = "commit " -> 7
      [] sym = "@@" -> 2
      [] sym = "e'" -> 2
      [] OTHER -> 1

RECURSIVE Utf8Len(_)
Utf8Len(s) == IF s = << >> THEN 0 ELSE ByteLen(Head(s)) + Utf8Len(Tail(s))

\* pat occurs in s at position i
OccursAt(s, i, pat) ==
    /\ i + Len(pat) - 1 <= Len(s)
    /\ SubSeq(s, i, i + Len(pat) - 1) = pat

\* str.index(pat): the first position of pat in s, 0 when there is none.
Index(s, pat) ==
    IF \E i \in DOMAIN s : OccursAt(s, i, pat)
    THEN CHOOSE i \in DOMAIN s :
            OccursAt(s, i, pat) /\ \A j \in 1..(i - 1) : ~ OccursAt(s, j, pat)
    ELSE 0

\* str.split(pat, maxsplit); maxsplit -1 is no limit.
RECURSIVE Split(_, _, _)
Split(s, pat, maxsplit) ==
    LET i == Index(s, pat) IN
    IF maxsplit = 0 \/ i = 0 THEN << s >>
    ELSE << SubSeq(s, 1, i - 1) >>
         \o Split(SubSeq(s, i + Len(pat), Len(s)), pat, maxsplit - 1)

\* re.split(r"^diff ", rest, flags=re.MULTILINE) from position `from` on: the
\* text is cut at each "diff " that starts the text or a line.
RECURSIVE DiffSplit(_, _)
DiffSplit(s, from) ==
    LET cuts == {i \in from..Len(s) : s[i] = "diff " /\ (i = 1 \/ s[i - 1] = "NL")} IN
    IF cuts = {} THEN << SubSeq(s, from, Len(s)) >>
    ELSE LET i == CHOOSE c \in cuts : \A d \in cuts : c <= d
         IN << SubSeq(s, from, i - 1) >> \o DiffSplit(s, i + 1)

\* ggshield.core.filter.is_filepath_excluded: a pattern is a whole filename here.
is_filepath_excluded(filename, exclusion_regexes) == filename \in exclusion_regexes

\* `file_size > DOCUMENT_SIZE_THRESHOLD_BYTES * 0.90`
TooLarge(document) == Utf8Len(document) * 100 > DOCUMENT_SIZE_THRESHOLD_BYTES * 90

CommitFile(document, filename, filemode) ==
    [document |-> document, filename |-> filename, filemode |-> filemode]

\* The loop over zip(names_and_modes, diffs) from its i-th round on: the
\* CommitFiles yielded, and the exception that ended it.  The header lines are
\* parsed one at a time, and before the diff of the round is taken.
RECURSIVE ZipFiles(_, _, _, _)
ZipFiles(lines, diffs, i, exclusion_regexes) ==
    IF i > Len(lines) THEN [files |-> << >>, raised |-> NoException]
    ELSE LET entry == _parse_patch_header_line(lines[i]) IN
    IF entry.raised # NoException THEN [files |-> << >>, raised |-> entry.raised]
    ELSE IF i > Len(diffs) THEN [files |-> << >>, raised |-> NoException]
    ELSE LET rest == ZipFiles(lines, diffs, i + 1, exclusion_regexes)
             diff == diffs[i]
             end_of_headers == Index(diff, << "NL", "@@" >>)
             document == SubSeq(diff, end_of_headers + 1, Len(diff))
         IN IF is_filepath_excluded(entry.filename, exclusion_regexes) THEN rest
            ELSE IF end_of_headers = 0 THEN rest
            ELSE IF TooLarge(document) THEN rest
            ELSE IF document = << >> THEN rest
            ELSE [files |-> << CommitFile(document, entry.filename, entry.filemode) >>
                            \o rest.files,
                  raised |-> rest.raised]

\* The loop over patch.split("\0commit ") from its k-th round on.
RECURSIVE ParseCommits(_, _, _)
ParseCommits(commits, k, exclusion_regexes) ==
    IF k > Len(commits) THEN [files |-> << >>, raised |-> NoException]
    ELSE LET tokens == Split(commits[k], << "NUL", "diff " >>, 1) IN
    IF Len(tokens) = 1 THEN ParseCommits(commits, k + 1, exclusion_regexes)
    ELSE IF tokens[1] = << >> THEN [files |-> << >>, raised |-> "IndexError"]
    ELSE LET got == ZipFiles(_parse_patch_header(tokens[1]),
                             DiffSplit(tokens[2], 1), 1, exclusion_regexes)
         IN IF got.raised # NoException THEN got
            ELSE LET rest == ParseCommits(commits, k + 1, exclusion_regexes) IN
                 [files |-> got.files \o rest.files, raised |-> rest.raised]

_parse_patch(text, exclusion_regexes) ==
    ParseCommits(Split(text, << "NUL", "commit " >>, 0 - 1), 1, exclusion_regexes)

----
\* The patches git writes.

\* The changed files a commit of the patch can have: a modification, an added
\* file with a line that holds "diff ", a file of an excluded path, a change
\* of mode only (no hunk), a document over the size limit, a rename.
ChangedFiles ==
    { [name |-> << "a" >>, new_name |-> << >>, status |-> << "M" >>, score |-> << >>,
       body |-> "hunk"],
      [name |-> << "b" >>, new_name |-> << >>, status |-> << "A" >>, score |-> << >>,
       body |-> "diff line"],
      [name |-> << "x" >>, new_name |-> << >>, status |-> << "M" >>, score |-> << >>,
       body |-> "hunk"],
      [name |-> << "b" >>, new_name |-> << >>, status |-> << "M" >>, score |-> << >>,
       body |-> "mode"],
      [name |-> << "a" >>, new_name |-> << >>, status |-> << "D" >>, score |-> << >>,
       body |-> "large"],
      [name |-> << "a" >>, new_name |-> << "c" >>, status |-> << "R" >>,
       score |-> << "0", "7", "5" >>, body |-> "hunk"] }

\* Commit.exclusion_regexes of the modelled commit.
exclusion_regexes == { << "x" >> }

\* A patch has at most MaxEntries changed files, in at most MaxCommits commits.
MaxEntries == 3
MaxCommits == 2

DigitSym(n) == << "1", "2", "3", "4", "5", "6", "7", "8", "9" >>[n]

\* The document of the i-th changed file f of commit k: its hunks.
Hunks(f, k, i) ==
    << "@@", " ", DigitSym(k), DigitSym(i), " ", "@@", "NL" >>
    \o (CASE f.body = "hunk" -> << "+" >> \o f.name \o << "NL" >>
          [] f.body = "diff line" -> << "+", "diff ", "NL" >>
          [] f.body = "large" -> Repeat(<< "+", "e'", "NL" >>, 6)
          [] OTHER -> << >>)

\* The diff of that file, after the "diff " it starts with.
DiffBody(f, k, i) ==
    << "-", "-", "g", "i", "t", " " >> \o f.name \o << "NL" >>
    \o (IF f.body = "mode"
        THEN << "o", "l", "d", " ", "m", "o", "d", "e", "NL" >>
        ELSE << "i", "n", "d", "e", "x", "NL" >> \o Hunks(f, k, i))

\* The text of commit k of patch p: the commit information (git show only),
\* the raw header lines, each ended by NUL, a NUL, and the diffs.
CommitText(p, k) ==
    LET mine == SelectSeq([i \in DOMAIN p.entries |->
                              [f |-> p.entries[i], k |-> p.commit_of[i]]],
                          LAMBDA e : e.k = k)
        info == IF p.form = "show"
                THEN << "s", DigitSym(k), "NL", "A", "u", "t", "h", "o", "r", ":", " ", "n",
                        "NL", "NL", " ", "m", "s", "g", "NL" >>
                     \o (IF mine = << >> THEN << >> ELSE << "NL" >>)
                ELSE << >>
        lines == Concat([i \in DOMAIN mine |->
                    RawHeaderLine([status |-> mine[i].f.status, score |-> mine[i].f.score,
                                   name |-> mine[i].f.name, new_name |-> mine[i].f.new_name,
                                   terminated |-> TRUE])])
        diffs == Concat([i \in DOMAIN mine |->
                    << "diff " >> \o DiffBody(mine[i].f, k, i)])
    IN info
       \o (IF mine = << >> THEN << >>
           ELSE lines \o << "NUL" >> \o diffs)

\* The text of patch p: git show starts it with "commit " and separates the
\* commits with NUL.
RECURSIVE CommitTexts(_, _)
CommitTexts(p, k) ==
    IF k > p.commits THEN << >>
    ELSE (IF k = 1 THEN << >> ELSE << "NUL" >>)
         \o << "commit " >> \o CommitText(p, k) \o CommitTexts(p, k + 1)

PatchText(p) ==
    IF p.form = "show" THEN CommitTexts(p, 1) ELSE CommitText(p, 1)

\* The patches: the output of git show (commits with their information) or of
\* git diff (one headerless commit).
PatchInputs ==
    { p \in [form : {"show", "diff"},
             commits : 1..MaxCommits,
             entries : UNION { [1..n -> ChangedFiles] : n \in 0..MaxEntries },
             commit_of : UNION { [1..n -> 1..MaxCommits] : n \in 0..MaxEntries }] :
        /\ DOMAIN p.commit_of = DOMAIN p.entries
        /\ \A i \in DOMAIN p.commit_of :
              /\ p.commit_of[i] <= p.commits
              /\ i > 1 => p.commit_of[i - 1] <= p.commit_of[i]
        /\ p.form = "diff" => p.commits = 1 }

NoPatch == [form |-> "none", commits |-> 0, entries |-> << >>, commit_of |-> << >>]

NotParsed == [files |-> << >>, raised |-> "not called"]

PatchIdle ==
    /\ patch_in = NoPatch
    /\ patch = << >>
    /\ patch_out = NotParsed

\* A call of _parse_patch, read to its end.
ParsePatch ==
    /\ patch_in # NoPatch
    /\ patch_out = NotParsed
    /\ patch_out' = _parse_patch(patch, exclusion_regexes)
    /\ UNCHANGED <<patch_in, patch, scanVars, headerVars, commitVars, collectionVars>>

----
\* Commit

\* An Optional value: None, or the value it holds.
None(empty) == [is_none |-> TRUE, value |-> empty]
Some(value) == [is_none |-> FALSE, value |-> value]

\* An exception raised to the reader of a property: its class, and for a
\* PatchParseError the sha and the exception its message names.
NoRaise == [type |-> NoException, sha |-> "", cause |-> ""]
Exc(type) == [type |-> type, sha |-> "", cause |-> ""]

\* PatchParseError(f"Could not parse patch (sha: {self.sha}): {exc}")
PatchParseError(commit_sha, exc) ==
    [type |-> "PatchParseError", sha |-> commit_sha, cause |-> exc.type]

\* The exception of a git process that exits with a non-zero status.
GitFailure == "CalledProcessError"

\* A changed file whose raw header line has a status letter the parser does
\* not know.
UnknownStatusFile ==
    [name |-> << "b" >>, new_name |-> << >>, status |-> << "X" >>, score |-> << >>,
     body |-> "hunk"]

\* The patches git can write for the commit: one of two scanned files, one
\* whose only file is excluded, one without any file, and one whose second
\* header line has an unknown status.
GitPatches(form) ==
    LET modified == CHOOSE f \in ChangedFiles : f.status = << "M" >> /\ f.name = << "a" >>
                                                /\ f.body = "hunk"
        renamed == CHOOSE f \in ChangedFiles : f.status = << "R" >>
        excluded == CHOOSE f \in ChangedFiles : f.name = << "x" >>
    IN { [form |-> form, commits |-> 1, entries |-> << modified, renamed >>,
          commit_of |-> << 1, 1 >>],
         [form |-> form, commits |-> 1, entries |-> << excluded >>, commit_of |-> << 1 >>],
         [form |-> form, commits |-> 1, entries |-> << >>, commit_of |-> << >>],
         [form |-> form, commits |-> 1, entries |-> << modified, UnknownStatusFile >>,
          commit_of |-> << 1, 1 >>] }

\* The arguments of the git call: `git show <sha>` or `git diff --cached`.
GitArgs == IF sha # "None" THEN << "show", sha >> ELSE << "diff", "--cached" >>

\* shell(argv): the text git writes, or the exception of a failed call.
shell(argv) ==
    { [raises |-> GitFailure, text |-> << >>] }
    \cup { [raises |-> NoException, text |-> PatchText(p)] : p \in GitPatches(argv[1]) }

\* Mutant: the patch is fetched at every read.
PatchIsNone_Always == TRUE

\* `if self._patch is None:`
PatchIsNone == _patch.is_none

\* Commit.patch, `out` being what shell gives if it is called: what the read
\* raises and returns, the new _patch, and the calls of shell it makes.
Commit_patch(out) ==
    IF ~ PatchIsNone
    THEN [raised |-> NoRaise, value |-> _patch.value, new_patch |-> _patch, calls |-> << >>]
    ELSE LET call == [argv |-> GitArgs, raises |-> out.raises, text |-> out.text] IN
         IF out.raises # NoException
         THEN [raised |-> Exc(out.raises), value |-> << >>, new_patch |-> _patch,
               calls |-> << call >>]
         ELSE [raised |-> NoRaise, value |-> out.text, new_patch |-> Some(out.text),
               calls |-> << call >>]

\* CommitInformation(author, email, date)
CommitInformation(author, email, date) ==
    [author |-> author, email |-> email, date |-> date]

\* REGEX_HEADER_INFO.search(patch): the author named after "Author: ", up to
\* the end of the line (the modelled commit information has neither email
\* nor date), or no match.
REGEX_HEADER_INFO(text) ==
    LET mark == << "A", "u", "t", "h", "o", "r", ":", " " >>
        at == Index(text, mark)
        tail == SubSeq(text, at + Len(mark), Len(text))
        nl == Index(tail, << "NL" >>)
    IN IF at = 0 \/ nl = 0 THEN None(CommitInformation(<< >>, "", ""))
       ELSE Some(CommitInformation(SubSeq(tail, 1, nl - 1), "", ""))

\* Commit.info: what the read raises and returns, the new _info, and the
\* read of Commit.patch it makes.
Commit_info(out) ==
    IF ~ _info.is_none
    THEN [raised |-> NoRaise, value |-> _info.value, new_info |-> _info,
          fetch |-> [new_patch |-> _patch, calls |-> << >>]]
    ELSE LET p == Commit_patch(out) IN
         IF p.raised # NoRaise
         THEN [raised |-> p.raised, value |-> _info.value, new_info |-> _info, fetch |-> p]
         ELSE LET m == REGEX_HEADER_INFO(p.value)
                  info == IF m.is_none THEN CommitInformation(<< "unknown" >>, "", "")
                          ELSE m.value
              IN [raised |-> NoRaise, value |-> info, new_info |-> Some(info), fetch |-> p]

\* Mutant: an exception of the parser is not wrapped.
Reraised_AsIs(raised) ==
    IF raised = NoException THEN NoRaise ELSE Exc(raised)

\* `except Exception as exc: raise PatchParseError(...)` around the parse.
Reraised(raised) ==
    IF raised = NoException THEN NoRaise ELSE PatchParseError(sha, Exc(raised))

\* What get_files gives once the patch is there: the CommitFiles the parser
\* yields and the exception that ends it, wrapped.
YieldFromParse(parsed, fetch) ==
    [raised |-> Reraised(parsed.raised), yielded |-> parsed.files, fetch |-> fetch,
     parses |-> 1]

\* Commit.get_files, read to its end: the CommitFiles it yields and what it
\* raises.  self.patch is read inside the try block, as the argument of
\* _parse_patch.
Commit_get_files(out) ==
    LET p == Commit_patch(out) IN
    IF p.raised # NoRaise
    THEN [raised |-> Reraised(p.raised.type), yielded |-> << >>, fetch |-> p, parses |-> 0]
    ELSE YieldFromParse(_parse_patch(p.value, exclusion_regexes), p)

\* `self._files = list(self.get_files())`: the assignment is not reached
\* when the generator raises.
ListFiles(got) ==
    IF got.raised # NoRaise
    THEN [raised |-> got.raised, value |-> << >>, new_files |-> _files,
          fetch |-> got.fetch, parses |-> got.parses]
    ELSE [raised |-> NoRaise, value |-> got.yielded, new_files |-> got.yielded,
          fetch |-> got.fetch, parses |-> got.parses]

\* Commit.files: `if not self._files: self._files = list(self.get_files())`.
Commit_files(out) ==
    IF _files # << >>
    THEN [raised |-> NoRaise, value |-> _files, new_files |-> _files,
          fetch |-> [new_patch |-> _patch, calls |-> << >>], parses |-> 0]
    ELSE ListFiles(Commit_get_files(out))

\* A Commit can be read at most MaxReads times.
MaxReads == 3

\* The record of a read: the property, what it raised and returned, and
\* whether it called shell.
Read(op, raised, value, fetch) ==
    [op |-> op, raised |-> raised, value |-> value, fetched |-> fetch.calls # << >>]

NoRead == [op |-> "none", raised |-> NoRaise, value |-> << >>, fetched |-> FALSE]

\* Commit.__init__(sha)
CommitInit(commit_sha) ==
    /\ sha = commit_sha
    /\ _patch = None(<< >>)
    /\ _files = << >>
    /\ _info = None(CommitInformation(<< >>, "", ""))
    /\ gitCalls = << >>
    /\ parseCalls = 0
    /\ last_read = NoRead
    /\ reads = 0

\* A read of commit.patch.
ReadPatch ==
    /\ reads < MaxReads
    /\ \E out \in shell(GitArgs) :
       \E p \in {Commit_patch(out)} :
          /\ _patch' = p.new_patch
          /\ gitCalls' = gitCalls \o p.calls
          /\ last_read' = Read("patch", p.raised, p.value, p)
    /\ reads' = reads + 1
    /\ UNCHANGED <<sha, _files, _info, parseCalls>>
    /\ UNCHANGED <<scanVars, headerVars, patchVars, collectionVars>>

\* A read of commit.info.
ReadInfo ==
    /\ reads < MaxReads
    /\ \E out \in shell(GitArgs) :
       \E i \in {Commit_info(out)} :
          /\ _info' = i.new_info
          /\ _patch' = i.fetch.new_patch
          /\ gitCalls' = gitCalls \o i.fetch.calls
          /\ last_read' = Read("info", i.raised, i.value, i.fetch)
    /\ reads' = reads + 1
    /\ UNCHANGED <<sha, _files, parseCalls>>
    /\ UNCHANGED <<scanVars, headerVars, patchVars, collectionVars>>

\* A read of commit.optional_header: the sha and the three fields of
\* self.info, of which the first read fills _info.
ReadOptionalHeader ==
    /\ reads < MaxReads
    /\ \E out \in shell(GitArgs) :
       \E i \in {Commit_info(out)} :
          /\ _info' = i.new_info
          /\ _patch' = i.fetch.new_patch
          /\ gitCalls' = gitCalls \o i.fetch.calls
          /\ last_read' = Read("optional_header", i.raised,
                               IF i.raised # NoRaise THEN << >>
                               ELSE << sha, i.value.author, i.value.email, i.value.date >>,
                               i.fetch)
    /\ reads' = reads + 1
    /\ UNCHANGED <<sha, _files, parseCalls>>
    /\ UNCHANGED <<scanVars, headerVars, patchVars, collectionVars>>

\* A read of commit.files.
ReadFiles ==
    /\ reads < MaxReads
    /\ \E out \in shell(GitArgs) :
       \E f \in {Commit_files(out)} :
          /\ _files' = f.new_files
          /\ _patch' = f.fetch.new_patch
          /\ gitCalls' = gitCalls \o f.fetch.calls
          /\ parseCalls' = parseCalls + f.parses
          /\ last_read' = Read("files", f.raised, f.value, f.fetch)
    /\ reads' = reads + 1
    /\ UNCHANGED <<sha, _info>>
    /\ UNCHANGED <<scanVars, headerVars, patchVars, collectionVars>>

\* A call of commit.get_files() whose generator is read to its end.
ReadGetFiles ==
    /\ reads < MaxReads
    /\ \E out \in shell(GitArgs) :
       \E g \in {Commit_get_files(out)} :
          /\ _patch' = g.fetch.new_patch
          /\ gitCalls' = gitCalls \o g.fetch.calls
          /\ parseCalls' = parseCalls + g.parses
          /\ last_read' = Read("get_files", g.raised, g.yielded, g.fetch)
    /\ reads' = reads + 1
    /\ UNCHANGED <<sha, _files, _info>>
    /\ UNCHANGED <<scanVars, headerVars, patchVars, collectionVars>>

\* Outside of the specification of Commit no commit is read.
CommitIdle == CommitInit("None")

----
\* ScanCollection

\* A ScanCollection: its id, its results (None, or the list of Result that
\* its Results holds) and its scans (None and the empty list are both the
\* empty sequence here: `if self.scans:` reads them alike).
ScanCollection(id, scan_results, scans) ==
    [id |-> id, results |-> scan_results, scans |-> scans]

\* The loop `for scan in self.scans: yield from scan.results.results` from
\* its k-th round on; reading .results of None raises AttributeError.
RECURSIVE YieldFromScans(_, _)
YieldFromScans(scans, k) ==
    IF k > Len(scans) THEN [items |-> << >>, raised |-> NoException]
    ELSE IF scans[k].results.is_none THEN [items |-> << >>, raised |-> "AttributeError"]
    ELSE LET rest == YieldFromScans(scans, k + 1) IN
         [items |-> scans[k].results.value \o rest.items, raised |-> rest.raised]

\* ScanCollection.get_all_results, read to its end: the Results it yields
\* and what it raises.  A Results object is true whatever its lists hold.
get_all_results(self) ==
    LET own == IF ~ self.results.is_none THEN self.results.value ELSE << >>
        sub == IF self.scans # << >> THEN YieldFromScans(self.scans, 1)
               ELSE [items |-> << >>, raised |-> NoException]
    IN [items |-> own \o sub.items, raised |-> sub.raised]

\* A collection tree has at most MaxNodes nodes.
MaxNodes == 4

\* The elements of a set of numbers, in increasing order.
RECURSIVE Ascending(_)
Ascending(S) ==
    IF S = {} THEN << >>
    ELSE LET m == CHOOSE x \in S : \A y \in S : x <= y
         IN << m >> \o Ascending(S \ {m})

\* The collection trees: node 1 is the root, every other node i is a scan of
\* the node parent[i] < i, and a node has no Results, Results without any
\* Result, or Results with one Result (named after the node).
TreeShapes ==
    UNION { [parent : {p \in [1..n -> 0..n] : p[1] = 0 /\ \A i \in 2..n : p[i] \in 1..(i - 1)},
             kind : [1..n -> {"None", "empty", "one"}]] : n \in 1..MaxNodes }

\* The ScanCollection of node i of a tree, with its scans in list order.
RECURSIVE Subtree(_, _)
Subtree(t, i) ==
    LET children == Ascending({j \in DOMAIN t.parent : t.parent[j] = i})
    IN ScanCollection(i,
                      CASE t.kind[i] = "None" -> None(<< >>)
                        [] t.kind[i] = "empty" -> Some(<< >>)
                        [] OTHER -> Some(<< [result_of |-> i] >>),
                      [k \in DOMAIN children |-> Subtree(t, children[k])])

NotYielded == [items |-> << >>, raised |-> "not called"]

\* Outside of the specification of ScanCollection there is a lone node.
CollectionIdle ==
    /\ collection = ScanCollection(0, None(<< >>), << >>)
    /\ all_results = NotYielded

\* A call of collection.get_all_results() whose generator is read to its end.
GetAllResults ==
    /\ all_results = NotYielded
    /\ collection.id # 0
    /\ all_results' = get_all_results(collection)
    /\ UNCHANGED <<collection, scanVars, headerVars, patchVars, commitVars>>

----
\* Specifications.

\* A scan of any input.
Init ==
    /\ \E docs \in Inputs : ScanInit(docs, "start_scans")
    /\ HeaderIdle
    /\ PatchIdle
    /\ CommitIdle
    /\ CollectionIdle

Next == ScanNext

Spec == Init /\ [][Next]_vars

\* A call of _parse_patch_header_line on any raw header line.
InitHeader ==
    /\ ScanInit(<< >>, "idle")
    /\ \E h \in HeaderInputs :
          /\ header_in = h
          /\ header_line = RawHeaderLine(h)
    /\ header_out = NoParse
    /\ PatchIdle
    /\ CommitIdle
    /\ CollectionIdle

NextHeader == ParseHeaderLine

SpecHeader == InitHeader /\ [][NextHeader]_vars

\* A call of _parse_patch on any patch.
InitPatch ==
    /\ ScanInit(<< >>, "idle")
    /\ HeaderIdle
    /\ \E p \in PatchInputs :
          /\ patch_in = p
          /\ patch = PatchText(p)
    /\ patch_out = NotParsed
    /\ CommitIdle
    /\ CollectionIdle

NextPatch == ParsePatch

SpecPatch == InitPatch /\ [][NextPatch]_vars

\* Reads of the properties of a Commit, of a sha or of the staged changes.
InitCommit ==
    /\ ScanInit(<< >>, "idle")
    /\ HeaderIdle
    /\ PatchIdle
    /\ \E commit_sha \in {"sha", "None"} : CommitInit(commit_sha)
    /\ CollectionIdle

NextCommit ==
    \/ ReadPatch
    \/ ReadInfo
    \/ ReadOptionalHeader
    \/ ReadFiles
    \/ ReadGetFiles

SpecCommit == InitCommit /\ [][NextCommit]_vars

\* A call of get_all_results on any collection tree.
InitCollection ==
    /\ ScanInit(<< >>, "idle")
    /\ HeaderIdle
    /\ PatchIdle
    /\ CommitIdle
    /\ \E t \in TreeShapes : collection = Subtree(t, 1)
    /\ all_results = NotYielded

NextCollection == GetAllResults

SpecCollection == InitCollection /\ [][NextCollection]_vars

----
\* Properties of the scan dispatcher.

Ended == pc = "done"
Returned == pc = "done" /\ outcome.kind = "Results"
Raised == pc = "done" /\ outcome.kind = "raise"

Collected == Range(collectOrder)

\* The (filename, filemode) pairs of batch b, in batch order.
BatchFiles(b) ==
    [i \in DOMAIN futures[b].chunk |->
        << futures[b].chunk[i].filename, futures[b].chunk[i].filemode >>]

BatchFilenames(b) == {futures[b].chunk[i].filename : i \in DOMAIN futures[b].chunk}

TransportFailed(b) ==
    futures[b].state = "finished" /\ futures[b].call.raises # NoException

Succeeded(b) ==
    /\ futures[b].state = "finished"
    /\ futures[b].call.raises = NoException
    /\ futures[b].call.value.success

\* A non-success outcome, returned and not raised, with the given statuses.
FailedWith(b, statuses) ==
    /\ futures[b].state = "finished"
    /\ futures[b].call.raises = NoException
    /\ ~ futures[b].call.value.success
    /\ futures[b].call.value.status_code \in statuses

\* The Errors of a list that name exactly the files of batch b.
ErrorsOf(errs, b) == {k \in DOMAIN errs : errs[k].files = BatchFiles(b)}

\* The files of batch b the remote service finds a lasting policy break in.
ViolatingFiles(b) == SelectSeq(futures[b].chunk, LAMBDA f : f.document = "secret")

\* C1: a scan in which a batch submission raises a transport exception (the
\* other batches succeeding) returns Results with no Result of that batch and
\* exactly one Error for it, listing the batch's files in order with the
\* exception's text; scan does not raise.
C1_TransportErrorIsReported ==
    (/\ Ended
     /\ \E b \in DOMAIN futures : TransportFailed(b)
     /\ \A b \in DOMAIN futures : TransportFailed(b) \/ Succeeded(b))
    => /\ outcome.kind = "Results"
       /\ \A b \in DOMAIN futures : TransportFailed(b) =>
            /\ Cardinality(ErrorsOf(outcome.errors, b)) = 1
            /\ \A k \in ErrorsOf(outcome.errors, b) :
                   outcome.errors[k].description = futures[b].call.raises
            /\ \A k \in DOMAIN outcome.results :
                   outcome.results[k].filename \notin BatchFilenames(b)

\* C2: when exactly one batch k fails (its call raises or returns a non-success
\* outcome) and every other batch succeeds, scan returns Results with exactly
\* one Error, for batch k with all its files, and a Result for every
\* violating file of the other batches, whatever the completion order.
C2_OneFailedBatchOneError ==
    \A k \in DOMAIN futures :
        (/\ Ended
         /\ futures[k].state = "finished" /\ ~ Succeeded(k)
         /\ \A b \in DOMAIN futures \ {k} : Succeeded(b))
        => /\ outcome.kind = "Results"
           /\ Len(outcome.errors) = 1
           /\ outcome.errors[1].files = BatchFiles(k)
           /\ \A b \in DOMAIN futures \ {k} :
                \A i \in DOMAIN ViolatingFiles(b) :
                    \E r \in DOMAIN outcome.results :
                        outcome.results[r].filename = ViolatingFiles(b)[i].filename

\* C3: a non-success outcome with a status code other than the authentication
\* failure is recoverable: the Results that scan returns hold an Error record
\* for that batch, and every other batch has been processed.
C3_ApiFailureIsAnErrorRecord ==
    \A b \in DOMAIN futures :
        (Returned /\ FailedWith(b, {"400"}))
        => /\ ErrorsOf(outcome.errors, b) # {}
           /\ Collected = DOMAIN futures

\* The Results expected of a processed batch: one per violating file of a
\* successful batch, in batch order, and none of any other batch.
ExpectedResults(b) ==
    IF Succeeded(b) THEN ViolatingFiles(b) ELSE << >>

ResultFile(r) == [filename |-> r.filename, filemode |-> r.filemode, document |-> r.content]

\* C4: for every successfully scanned batch there is a Result for exactly the
\* files that keep a policy break after the ignore-list and ignored-detector
\* filters, in batch order; the other files of the batch give neither a Result
\* nor an Error.  A batch of one violating and one clean file gives one Result
\* and no Error.
C4_ResultsAreTheViolatingFiles ==
    /\ [k \in DOMAIN results |-> ResultFile(results[k])]
         = Concat([k \in DOMAIN collectOrder |-> ExpectedResults(collectOrder[k])])
    /\ \A k \in DOMAIN results :
         /\ results[k].scan # << >>
         /\ \A j \in DOMAIN results[k].scan :
              /\ results[k].scan[j].match \notin matches_ignore
              /\ results[k].scan[j].detector \notin ignored_detectors
    /\ \A b \in Collected : Succeeded(b) => ErrorsOf(errors, b) = {}
    /\ (Ended /\ Len(futures) = 1 /\ Succeeded(1) /\ Len(futures[1].chunk) = 2
          /\ Len(ViolatingFiles(1)) = 1)
       => /\ outcome.kind = "Results"
          /\ Len(outcome.results) = 1
          /\ outcome.results[1].filename = ViolatingFiles(1)[1].filename
          /\ outcome.errors = << >>

C4_Witness ==
    /\ Returned
    /\ Len(futures) = 1 /\ Succeeded(1)
    /\ {futures[1].chunk[i].document : i \in DOMAIN futures[1].chunk} = {"secret", "clean"}
    /\ Len(outcome.results) = 1
    /\ outcome.errors = << >>

\* C5: every submitted batch is non-empty and has at most MULTI_DOCUMENT_LIMIT
\* files, every batch but possibly the last has exactly MULTI_DOCUMENT_LIMIT,
\* the batches in submission order (followed by the chunk being filled) are
\* the files with content read so far, in input order, and no file without
\* content is in a batch.
C5_BatchesPartitionTheInput ==
    LET read == SubSeq(files, 1, idx - 1)
        chunks == [b \in DOMAIN futures |-> futures[b].chunk]
    IN /\ \A b \in DOMAIN futures :
            /\ Len(futures[b].chunk) >= 1
            /\ Len(futures[b].chunk) <= MULTI_DOCUMENT_LIMIT
            /\ b < Len(futures) => Len(futures[b].chunk) = MULTI_DOCUMENT_LIMIT
            /\ \A i \in DOMAIN futures[b].chunk : futures[b].chunk[i].document # ""
            /\ futures[b].documents =
                 [i \in DOMAIN futures[b].chunk |->
                     [document |-> futures[b].chunk[i].document,
                      filename |-> futures[b].chunk[i].filename]]
       /\ pc = "start_scans" =>
            Concat(chunks) \o chunk = SelectSeq(read, LAMBDA f : f.document # "")
       /\ pc # "start_scans" =>
            Concat(chunks) = SelectSeq(files, LAMBDA f : f.document # "")

C5_Witness ==
    /\ pc # "start_scans"
    /\ Len(futures) = 2
    /\ Len(futures[1].chunk) = MULTI_DOCUMENT_LIMIT
    /\ Len(futures[2].chunk) < MULTI_DOCUMENT_LIMIT
    /\ skipped_chunk # << >>
    /\ files[1].document = ""

\* The remote outcome of batch b is non-success with the authentication-failure
\* status or with no status code.
FatalOutcome(b) == FailedWith(b, {"401", "None"})

\* C6: when the collector processes a batch whose non-success outcome has
\* status 401 or no status code, scan fails at that point: no batch outcome is
\* processed after that one, no Results are returned and scan raises.
C6_FatalOutcomeStopsTheScan ==
    \A k \in DOMAIN collectOrder :
        FatalOutcome(collectOrder[k])
        => /\ k = Len(collectOrder)
           /\ pc \in {"exit", "done"}
           /\ outcome.kind = "raise"
           /\ outcome.exception \in {"UsageError", "ClickException"}
           /\ outcome.results = << >> /\ outcome.errors = << >>
           /\ ~ \E i \in DOMAIN cacheOps : cacheOps[i].op = "save"

C6_Witness ==
    /\ Raised
    /\ outcome.exception = "UsageError"
    /\ Len(collectOrder) = 1
    /\ Len(futures) = 2
    /\ FailedWith(collectOrder[1], {"401"})

\* C7: when scan returns or raises, every submitted batch has run its remote
\* call to completion; none is pending, running or dropped.
C7_NoWorkerOutlivesScan ==
    Ended => /\ \A b \in DOMAIN futures : futures[b].state = "finished"
             /\ Range(completionOrder) = DOMAIN futures

C7_Witness ==
    /\ Raised
    /\ pendingAtExit # {}
    /\ \A b \in DOMAIN futures : futures[b].state = "finished"

----
\* Properties of the patch header parser.

\* The filemode of each status letter git can write.
FilemodeTable ==
    [l \in {"M", "C", "A", "T", "R", "D"} |->
        CASE l = "M" -> "MODIFY"
          [] l \in {"C", "A", "T"} -> "NEW"
          [] l = "R" -> "RENAME"
          [] l = "D" -> "DELETE"]

\* The name the line is about: the new name when there is one.
EffectiveName(h) == IF h.new_name # << >> THEN h.new_name ELSE h.name

PriorityOrder == << "M", "C", "A", "T", "R", "D" >>

\* The letters of a status that git can write, and the one of them that comes
\* first in the priority order.
KnownLetters(status) == Range(status) \cap Range(PriorityOrder)

Highest(letters) ==
    PriorityOrder[CHOOSE i \in DOMAIN PriorityOrder :
                     /\ PriorityOrder[i] \in letters
                     /\ \A j \in 1..(i - 1) : PriorityOrder[j] \notin letters]

\* C9: for a status of several letters (one per parent) the filemode is that
\* of the letter present that comes first in Modify > Copy > Add >
\* Type-change > Rename > Delete, wherever the letters stand; a pair of
\* letters of which one is M gives MODIFY.
C9_MergePriority ==
    (header_out # NoParse /\ Len(header_in.status) >= 2)
    => /\ IF KnownLetters(header_in.status) = {}
          THEN header_out.raised = "ValueError"
          ELSE /\ header_out.raised = NoException
               /\ header_out.filemode
                    = FilemodeTable[Highest(KnownLetters(header_in.status))]
               /\ header_out.filename = EffectiveName(header_in)
       /\ (Len(header_in.status) = 2 /\ "M" \in Range(header_in.status))
            => header_out.filemode = "MODIFY"

C9_Witness ==
    /\ header_in.status = << "D", "M" >>
    /\ header_out.raised = NoException
    /\ header_out.filemode = "MODIFY"

----
\* Properties of the patch parser.

\* The place of the i-th changed file of a patch within its commit.
PlaceInCommit(p, i) ==
    Cardinality({j \in 1..i : p.commit_of[j] = p.commit_of[i]})

\* The changed files that have a document to scan: not of an excluded path,
\* with a hunk, and within the size limit.
IsYielded(f) ==
    /\ EffectiveName(f) \notin exclusion_regexes
    /\ f.body \in {"hunk", "diff line"}

\* The CommitFiles a patch stands for, in header order.
ExpectedFiles(p) ==
    Concat([i \in DOMAIN p.entries |->
        IF IsYielded(p.entries[i])
        THEN << [document |-> Hunks(p.entries[i], p.commit_of[i], PlaceInCommit(p, i)),
                 filename |-> EffectiveName(p.entries[i]),
                 filemode |-> FilemodeTable[p.entries[i].status[1]]] >>
        ELSE << >>])

\* C10: in every sub-patch the i-th header entry is paired with the i-th diff,
\* skipped entries (excluded path, no hunk, oversized document) not shifting
\* the pairing: the CommitFiles yielded are, in header order, those of the
\* entries that are not skipped, each with the filename and filemode of its
\* own header line and its own diff from the first hunk marker on.  A patch
\* of two such files in one commit yields two CommitFiles, also when the
\* header starts with a file line (git diff).
C10_HeaderEntriesPairedWithDiffs ==
    patch_out # NotParsed
    => /\ patch_out.raised = NoException
       /\ patch_out.files = ExpectedFiles(patch_in)
       /\ (/\ Len(patch_in.entries) = 2
           /\ patch_in.commit_of = << 1, 1 >>
           /\ \A i \in 1..2 : IsYielded(patch_in.entries[i]))
          => Len(patch_out.files) = 2

C10_Witness ==
    /\ patch_in.form = "diff"
    /\ Len(patch_in.entries) = 3
    /\ IsYielded(patch_in.entries[1])
    /\ patch_in.entries[2].body = "mode"
    /\ patch_in.entries[3].new_name # << >>
    /\ patch_out.raised = NoException
    /\ Len(patch_out.files) = 2
    /\ patch_out.files[1].filename = patch_in.entries[1].name
    /\ patch_out.files[2] = [document |-> Hunks(patch_in.entries[3], 1, 3),
                             filename |-> patch_in.entries[3].new_name,
                             filemode |-> "RENAME"]

----
\* Properties of the scan dispatcher: error handling, cache and ordering.

\* Batch b finished with a non-success outcome whose status is present and
\* is not 401.
Recoverable(b) ==
    /\ futures[b].state = "finished"
    /\ futures[b].call.raises = NoException
    /\ ~ futures[b].call.value.success
    /\ futures[b].call.value.status_code \notin {"401", "None"}

\* The per-file lines handle_scan_chunk_error writes for a list of details
\* when each non-empty entry i is attributed to the file at index i.
AttributedLines(details, c) ==
    LET at == {i \in DOMAIN details : details[i] # ""}
        seq == SelectSeq([i \in DOMAIN details |-> i], LAMBDA i : i \in at)
    IN [k \in DOMAIN seq |->
           [line |-> "file", files |-> << c[seq[k]].filename >>, text |-> details[seq[k]]]]

\* C15: for every batch outcome that is not a success and carries a status
\* other than 401, whatever the detail text and the batch (a detail list
\* longer than the batch included), handle_scan_chunk_error returns without
\* raising, and when the detail is a non-empty list it reports each non-empty
\* entry i against the file at index i of the batch.
C15_RecoverableErrorNeverRaises ==
    \A b \in Collected :
        Recoverable(b) =>
            LET c == futures[b].chunk
                detail == futures[b].call.value
                handled == handle_scan_chunk_error(detail, c)
            IN /\ handled.raised = NoException
               /\ ~ (outcome.kind = "raise" /\ collectOrder[Len(collectOrder)] = b)
               /\ (detail.detail.literal = "list" /\ detail.detail.items # << >>) =>
                      SubSeq(handled.out, 3, Len(handled.out))
                          = AttributedLines(detail.detail.items, c)

\* How many times the cache operation op has been called.
CountOp(op) == Cardinality({k \in DOMAIN cacheOps : cacheOps[k].op = op})

\* C16: in every scan that returns Results (one with no batch included),
\* cache.purge is called exactly once, before the collector processes any
\* batch outcome or adds any policy break, and cache.save is called exactly
\* once, after the last batch has been collected and the last policy break
\* added.
C16_PurgeFirstSaveLast ==
    /\ CountOp("purge") <= 1
    /\ CountOp("save") <= 1
    /\ cacheOps # << >> => cacheOps[1].op = "purge"
    /\ collectOrder # << >> => CountOp("purge") = 1
    /\ CountOp("save") = 1 =>
           /\ cacheOps[Len(cacheOps)].op = "save"
           /\ Collected = DOMAIN futures
           /\ outcome.kind = "Results"
    /\ outcome.kind = "Results" =>
           /\ CountOp("purge") = 1
           /\ CountOp("save") = 1
           /\ outcome.results = results

\* A scan of two batches has returned with policy breaks added to the cache
\* between the purge and the save.
C16_Witness ==
    /\ Returned
    /\ Len(futures) = 2
    /\ Len(cacheOps) > 2
    /\ cacheOps[2].op = "add_found_policy_break"

\* The step calls cache.purge / cache.save.
PurgeStep == cacheOps' = Append(cacheOps, [op |-> "purge"])
SaveStep == cacheOps' = Append(cacheOps, [op |-> "save"])

\* C17: purge and save bracket the whole concurrent phase: when cache.purge
\* executes no worker has started the remote call of any batch, and when
\* cache.save executes no remote call is still running.
C17_CacheBracketsWorkers ==
    [][ /\ PurgeStep => \A b \in DOMAIN futures : futures[b].state = "pending"
        /\ SaveStep => \A b \in DOMAIN futures : futures[b].state # "running" ]_vars

\* C17 as the code has it: cache.purge executes once every batch has been
\* submitted to the executor, whose workers may by then have started or
\* finished remote calls, and before any completion is collected; when
\* cache.save executes every remote call has finished.
C17_CacheBracketsCollection ==
    [][ /\ PurgeStep => /\ pc = "purge"
                        /\ idx > Len(files)
                        /\ collectOrder = << >>
        /\ SaveStep => \A b \in DOMAIN futures : futures[b].state = "finished" ]_vars

\* A scan has returned whose purge came after a worker had finished the
\* remote call of a batch.
C17_Witness ==
    /\ Returned
    /\ snapshot # {}
    /\ CountOp("purge") = 1
    /\ CountOp("save") = 1

\* C18: every cache operation (purge, add_found_policy_break, save) is
\* executed by the one collecting thread and never by a worker thread, and
\* no two cache operations overlap: a step that calls the cache is a step of
\* the thread running _collect_results, it leaves every future as it is, and
\* it only appends to the sequence of operations already performed.
C18_CacheOnCollectingThreadOnly ==
    [][ cacheOps' # cacheOps =>
            /\ pc \in {"purge", "collect"}
            /\ futures' = futures
            /\ completionOrder' = completionOrder
            /\ Len(cacheOps') > Len(cacheOps)
            /\ SubSeq(cacheOps', 1, Len(cacheOps)) = cacheOps ]_vars

\* A policy break has been added to the cache while a worker thread is
\* running the remote call of another batch.
C18_Witness ==
    /\ Running # {}
    /\ \E k \in DOMAIN cacheOps : cacheOps[k].op = "add_found_policy_break"

\* The batch the file of that name was submitted in.
BatchOf(filename) == CHOOSE b \in DOMAIN futures : filename \in BatchFilenames(b)

\* The remote call of batch a completed before that of batch b.
CompletedBefore(a, b) ==
    \E i, j \in DOMAIN completionOrder :
        i < j /\ completionOrder[i] = a /\ completionOrder[j] = b

\* The Results of one batch are next to each other and in batch order (the
\* files of a scan are named by their place in the input).
BatchResultsContiguous ==
    \A i, j \in DOMAIN results :
        (i < j /\ BatchOf(results[i].filename) = BatchOf(results[j].filename)) =>
            /\ results[i].filename < results[j].filename
            /\ \A k \in i..j : BatchOf(results[k].filename) = BatchOf(results[i].filename)

\* C19: Results and Errors are appended in the order the remote calls
\* complete, not in submission order: if the call of batch A completes before
\* that of batch B, every Result and Error of A precedes every Result and
\* Error of B; the Results of one batch are contiguous and in batch order.
C19_AppendedInCompletionOrder ==
    /\ \A i, j \in DOMAIN results :
           CompletedBefore(BatchOf(results[i].filename), BatchOf(results[j].filename))
               => i < j
    /\ \A i, j \in DOMAIN errors :
           \A a, b \in DOMAIN futures :
               (i \in ErrorsOf(errors, a) /\ j \in ErrorsOf(errors, b)
                   /\ CompletedBefore(a, b)) => i < j
    /\ BatchResultsContiguous

\* C19 as the code has it: Results and Errors are appended in the order
\* as_completed yields the batches, which follows the completion of the
\* remote calls only for the calls that complete after collection has begun;
\* the batches already complete by then come first, in no particular order.
\* The Results of one batch are contiguous and in batch order.
C19_AppendedInYieldOrder ==
    /\ \A i, j \in DOMAIN results :
           LET a == BatchOf(results[i].filename)
               b == BatchOf(results[j].filename)
           IN (CompletedBefore(a, b) /\ b \notin snapshot) => i < j
    /\ \A i, j \in DOMAIN errors :
           \A a, b \in DOMAIN futures :
               (i \in ErrorsOf(errors, a) /\ j \in ErrorsOf(errors, b)
                   /\ CompletedBefore(a, b) /\ b \notin snapshot) => i < j
    /\ BatchResultsContiguous

\* A scan has returned the Results of two batches whose calls both completed
\* after collection had begun, the second batch first.
C19_Witness ==
    /\ Returned
    /\ snapshot = {}
    /\ completionOrder = << 2, 1 >>
    /\ Len(outcome.results) > 2
    /\ BatchOf(outcome.results[1].filename) = 2
    /\ BatchOf(outcome.results[Len(outcome.results)].filename) = 1

----
\* Properties of Commit.

\* The calls of git that returned a patch.
GitReturned == {k \in DOMAIN gitCalls : gitCalls[k].raises = NoException}

\* C11: whatever the sequence of reads of patch, info, files and
\* optional_header of one Commit, git is called at most once, and exactly
\* once as soon as one of them has been read; every later read returns the
\* memoized patch text.
C11_GitCalledOnce ==
    /\ Len(gitCalls) <= 1
    /\ reads > 0 => Len(gitCalls) = 1
    /\ (last_read.op = "patch" /\ last_read.raised = NoRaise) =>
           /\ ~ _patch.is_none
           /\ last_read.value = _patch.value

\* C11 as the code has it: a call of git that returns is the last one: its
\* text is memoized, no read calls git again and every later read of patch
\* returns that text; a call that fails memoizes nothing, and the next read
\* that needs the patch calls git again.  Each call is `git show <sha>` for a
\* commit and `git diff --cached` for the staged changes.
C11_GitReturnsOnce ==
    /\ Cardinality(GitReturned) <= 1
    /\ GitReturned # {} => GitReturned = {Len(gitCalls)}
    /\ reads > 0 => gitCalls # << >>
    /\ Len(gitCalls) <= reads
    /\ _patch.is_none <=> GitReturned = {}
    /\ ~ _patch.is_none => _patch.value = gitCalls[Len(gitCalls)].text
    /\ \A k \in DOMAIN gitCalls : gitCalls[k].argv = GitArgs
    /\ (last_read.op # "none" /\ last_read.raised = NoRaise) => ~ _patch.is_none
    /\ (last_read.op = "patch" /\ last_read.raised = NoRaise) =>
           last_read.value = _patch.value
    /\ (last_read.fetched /\ GitReturned = {}) => last_read.raised # NoRaise

\* The commit has been read three times, the files and the patch among the
\* reads, and git has been called once.
C11_Witness ==
    /\ reads >= 3
    /\ Len(gitCalls) = 1
    /\ _files # << >>
    /\ last_read.op = "patch"
    /\ last_read.value = gitCalls[1].text

\* What parsing the memoized patch gives.
ParseOfPatch == _parse_patch(_patch.value, exclusion_regexes)

\* C12: an exception raised while the patch of a commit is parsed (an unknown
\* status letter in a header line, say) reaches the caller of get_files or
\* files as a PatchParseError that names the sha of the commit, and the
\* Commit keeps no partially parsed list of files.
C12_ParseErrorIsWrapped ==
    /\ (last_read.op \in {"files", "get_files"} /\ ~ _patch.is_none) =>
           \E parsed \in {ParseOfPatch} :
               /\ parsed.raised # NoException =>
                      /\ last_read.raised = PatchParseError(sha, Exc(parsed.raised))
                      /\ _files = << >>
               /\ parsed.raised = NoException =>
                      /\ last_read.raised = NoRaise
                      /\ last_read.value = parsed.files
    /\ _files # << >> =>
           \E parsed \in {ParseOfPatch} :
               /\ parsed.raised = NoException
               /\ _files = parsed.files

\* A read of files has raised PatchParseError for an unknown status letter
\* in the second header line, after the parser had yielded a first file.
C12_Witness ==
    /\ last_read.op = "files"
    /\ sha = "sha"
    /\ last_read.raised = PatchParseError("sha", Exc("ValueError"))
    /\ ParseOfPatch.files # << >>
    /\ _files = << >>

\* C13: when the call of git fails, the exception it raises reaches the
\* reader unmodified, whichever property started the call: patch, info,
\* optional_header, files or get_files.
C13_GitFailurePropagates ==
    (last_read.fetched /\ gitCalls[Len(gitCalls)].raises # NoException) =>
        last_read.raised = Exc(gitCalls[Len(gitCalls)].raises)

----
\* Properties of ScanCollection.

\* The depth-first concatenation of the Result lists of a tree: the results
\* of the node, then those of each of its scans in list order.
RECURSIVE DepthFirstResults(_)
DepthFirstResults(node) ==
    (IF node.results.is_none THEN << >> ELSE node.results.value)
    \o Concat([k \in DOMAIN node.scans |-> DepthFirstResults(node.scans[k])])

\* C14: for every ScanCollection tree, of any depth and with scans that have
\* Results or not, get_all_results yields the results of the node and then
\* those of all its descendants, the scans taken in list order: the
\* depth-first concatenation of the Result lists of the tree.
C14_DepthFirstConcatenation ==
    all_results # NotYielded =>
        /\ all_results.raised = NoException
        /\ all_results.items = DepthFirstResults(collection)

----
\* Properties of Commit.files.

\* C21: Commit.files parses the patch once for one Commit, however many
\* times it is read and also when the parse yields no file: a read of files
\* that follows a read of files that has returned does not run the parser
\* again, and it returns the same list.
C21_FilesParsedOnce ==
    [][ (last_read.op = "files" /\ last_read.raised = NoRaise /\ last_read'.op = "files") =>
            /\ parseCalls' = parseCalls
            /\ last_read'.raised = NoRaise
            /\ last_read'.value = last_read.value ]_vars

----
\* Properties of the scan dispatcher: failure after partial collection,
\* progress totals.

\* The policy breaks added to the cache so far.
CacheAdds == {k \in DOMAIN cacheOps : cacheOps[k].op = "add_found_policy_break"}

\* C22: when the collector meets a fatal outcome (status 401 or no status)
\* after it has processed other batches, scan raises without calling
\* cache.save: the Results collected and the policy breaks added to the cache
\* for the earlier batches are neither returned nor persisted, while
\* cache.purge has already been called.
C22_FatalAfterPartialCollection ==
    (Len(collectOrder) > 1 /\ FatalOutcome(collectOrder[Len(collectOrder)])) =>
        /\ CountOp("purge") = 1
        /\ CountOp("save") = 0
        /\ cacheOps = << [op |-> "purge"] >>
                      \o [k \in 1..Cardinality(CacheAdds) |-> cacheOps[k + 1]]
        /\ Cardinality(CacheAdds) >= Len(results)
        /\ outcome = [NoOutcome EXCEPT !.kind = "raise", !.exception = outcome.exception]
        /\ outcome.exception \in {"UsageError", "ClickException"}
        /\ Ended => Raised

\* Scan has raised for an authentication failure of its second batch, after
\* a Result of the first batch had been collected and its policy break added
\* to the cache.
C22_Witness ==
    /\ Raised
    /\ Len(collectOrder) = 2
    /\ FailedWith(collectOrder[2], {"401"})
    /\ results # << >>
    /\ CacheAdds # {}
    /\ outcome.results = << >>

\* The sum of the numbers of a sequence.
RECURSIVE Sum(_)
Sum(s) == IF s = << >> THEN 0 ELSE s[1] + Sum(Tail(s))

\* The files with content among the first n input files.
WithDocument(n) == {i \in 1..n : files[i].document # ""}

\* C23: the advance values passed to the progress callback during a scan add
\* up to the number of input files, submitted and skipped, each file counted
\* once; the number of skipped files is reported in one invocation, the last,
\* made after the last batch has been submitted, also when it is zero.
C23_ProgressCountsEveryFile ==
    /\ pc = "start_scans" =>
           /\ Sum(progress) + Len(chunk) = Cardinality(WithDocument(idx - 1))
           /\ Len(progress) = Len(futures)
    /\ pc \notin {"start_scans", "idle"} =>
           /\ Sum(progress) = Len(files)
           /\ Len(progress) = Len(futures) + 1
           /\ progress[Len(progress)] = Len(files) - Cardinality(WithDocument(Len(files)))
           /\ Sum(SubSeq(progress, 1, Len(futures))) = Cardinality(WithDocument(Len(files)))

\* A scan of two batches and no skipped file has ended: the last of its three
\* progress reports is zero.
C23_Witness ==
    /\ Ended
    /\ Len(futures) = 2
    /\ skipped_chunk = << >>
    /\ Len(progress) = 3
    /\ progress[3] = 0
    /\ Sum(progress) = Len(files)

====
